---- MODULE Spec2Model ----
(***************************************************************************)
(* Model of cs121.py: simulate_game (the round simulator),                 *)
(* summarize_buckets (the bucket aggregator) and the part of main that     *)
(* chains them.                                                            *)
(*                                                                         *)
(* Number representation.                                                  *)
(*  - Payoffs are held in units of one half, because line 73 multiplies    *)
(*    wager_amount by 0.5: an amount x of the program is the integer 2*x.  *)
(*  - Probabilities are held in hundredths (prob_bias = 30 is 0.3) and the *)
(*    values of random.random() in thousandths (a draw of 320 is 0.32).    *)
(*  - The true division sum/len of line 156 is an exact fraction           *)
(*    [num, den] in lowest terms.                                          *)
(***************************************************************************)
EXTENDS Integers, Sequences, FiniteSets

VARIABLES
    entry,               \* which callable the caller entered
    pc,                  \* position of the program
    n_rounds,
    cost_high_safety,
    cost_low_safety,
    prob_bias_high,
    prob_bias_low,
    auditor_check_cost,
    wager_amount,
    fine_amount,
    round_i,             \* the value range(n_rounds) yields next
    history,
    cumulative_ai,
    cumulative_auditor,
    is_biased,           \* the local of line 65: "unbound", "true", "false"
    final_cum_ai,        \* the totals returned by simulate_game
    final_cum_auditor,
    buckets,
    k,                   \* position of the loop of line 127 in history
    summary

vars == <<entry, pc, n_rounds, cost_high_safety, cost_low_safety,
          prob_bias_high, prob_bias_low, auditor_check_cost, wager_amount,
          fine_amount, round_i, history, cumulative_ai, cumulative_auditor,
          is_biased, final_cum_ai, final_cum_auditor, buckets, k, summary>>

params == <<n_rounds, cost_high_safety, cost_low_safety, prob_bias_high,
            prob_bias_low, auditor_check_cost, wager_amount, fine_amount>>

simVars == <<round_i, cumulative_ai, cumulative_auditor, is_biased>>

----------------------------------------------------------------------------
(* Bounds and input sets *)

MaxRounds == 2

MaxLen == 2

CostHighValues == {3}

CostLowValues == {1}

ProbBiasHighValues == {0, 5}

ProbBiasLowValues == {30, 100}

CheckCostValues == {0, 1}

WagerValues == {0, 1, 3}

FineValues == {0, 7}

RandomDraws == {0, 99, 100, 320, 950}

\* (incremental_ai, incremental_auditor) of the records of a history handed
\* directly to summarize_buckets, in halves.
IncrementalPairs == {<<-2, 0>>, <<3, -1>>, <<0, 5>>}

Decisions == {"ai_invests_high", "auditor_pays_for_check", "wager_placed"}

Groups == {"true", "false"}

----------------------------------------------------------------------------
(* Arithmetic helpers *)

\* An amount of the program, in halves.
M(x) == 2 * x

\* x * 0.5 for an amount x held in halves.
TimesHalf(x) == x \div 2

Abs(x) == IF x < 0 THEN -x ELSE x

RECURSIVE GCD(_, _)
GCD(a, b) == IF b = 0 THEN a ELSE GCD(b, a % b)

\* sum() of a list.
RECURSIVE Sum(_)
Sum(xs) == IF xs = <<>> THEN 0 ELSE Head(xs) + Sum(Tail(xs))

\* True division n / d, d > 0, as a fraction in lowest terms.
Divide(n, d) ==
    LET g == GCD(Abs(n), d)
    IN  [num |-> n \div g, den |-> d \div g]

\* The number 0 as a fraction.
Zero == [num |-> 0, den |-> 1]

----------------------------------------------------------------------------
(* simulate_game *)

ProbBias(ai_invests_high) ==
    IF ai_invests_high THEN prob_bias_high ELSE prob_bias_low

SafetyEffect(ai_invests_high) ==
    IF ai_invests_high THEN -M(cost_high_safety) ELSE -M(cost_low_safety)

CheckEffect(auditor_pays_for_check) ==
    IF auditor_pays_for_check THEN -M(auditor_check_cost) ELSE 0

\* The threshold of the signal draw, in thousandths:
\* prob_bias * 0.9 + (1 - prob_bias) * 0.1 with a check, prob_bias without.
DetectionProb(auditor_pays_for_check, prob_bias) ==
    IF auditor_pays_for_check
    THEN prob_bias * 9 + (100 - prob_bias) * 1
    ELSE prob_bias * 10

SignalBias(auditor_pays_for_check, prob_bias, draw) ==
    draw < DetectionProb(auditor_pays_for_check, prob_bias)

IsBiased(prob_bias, draw) == draw < prob_bias * 10

\* Mutants of WagerDecision.
WagerDecisionAssignsGain(signal_bias, biased) ==
    IF signal_bias
    THEN IF biased
         THEN [wager_placed |-> TRUE,
               auditor_wager_effect |-> M(fine_amount) + M(wager_amount),
               ai_wager_effect |-> -M(fine_amount)]
         ELSE [wager_placed |-> TRUE,
               auditor_wager_effect |-> -M(wager_amount),
               ai_wager_effect |-> TimesHalf(M(wager_amount))]
    ELSE [wager_placed |-> FALSE, auditor_wager_effect |-> 0,
          ai_wager_effect |-> 0]

WagerDecisionAddsLoss(signal_bias, biased) ==
    IF signal_bias
    THEN IF biased
         THEN [wager_placed |-> TRUE,
               auditor_wager_effect |->
                   -M(wager_amount) + (M(fine_amount) + M(wager_amount)),
               ai_wager_effect |-> -M(fine_amount)]
         ELSE [wager_placed |-> TRUE,
               auditor_wager_effect |-> -M(wager_amount) + -M(wager_amount),
               ai_wager_effect |-> TimesHalf(M(wager_amount))]
    ELSE [wager_placed |-> FALSE, auditor_wager_effect |-> 0,
          ai_wager_effect |-> 0]

WagerDecisionPaysUpfront(signal_bias, biased) ==
    IF signal_bias
    THEN IF biased
         THEN [wager_placed |-> TRUE,
               auditor_wager_effect |->
                   -M(wager_amount) + (M(fine_amount) + M(wager_amount)),
               ai_wager_effect |-> -M(fine_amount)]
         ELSE [wager_placed |-> TRUE,
               auditor_wager_effect |-> -M(wager_amount),
               ai_wager_effect |-> TimesHalf(M(wager_amount))]
    ELSE [wager_placed |-> TRUE, auditor_wager_effect |-> -M(wager_amount),
          ai_wager_effect |-> 0]

\* Step 3 of a round: the wager flag and the two wager effects.
WagerDecision(signal_bias, biased) ==
    IF signal_bias
    THEN IF biased
         THEN [wager_placed |-> TRUE,
               auditor_wager_effect |->
                   -M(wager_amount) + (M(fine_amount) + M(wager_amount)),
               ai_wager_effect |-> -M(fine_amount)]
         ELSE [wager_placed |-> TRUE,
               auditor_wager_effect |-> -M(wager_amount),
               ai_wager_effect |-> TimesHalf(M(wager_amount))]
    ELSE [wager_placed |-> FALSE, auditor_wager_effect |-> 0,
          ai_wager_effect |-> 0]

\* Mutant of Incremental.
IncrementalDropsWager(base_effect, wager_effect) == base_effect

\* incremental_ai and incremental_auditor.
Incremental(base_effect, wager_effect) == base_effect + wager_effect

\* Mutant of Accumulate.
AccumulateOverwrites(cumulative, incremental) == incremental

\* cumulative += incremental.
Accumulate(cumulative, incremental) == cumulative + incremental

\* Mutant of RoundNumber.
RoundNumberZeroBased(i) == i

\* The 'round' field.
RoundNumber(i) == i + 1

\* The record one iteration of the loop appends, and the totals after it.
RoundRecord(i, ai_invests_high, auditor_pays_for_check, signal_bias, biased) ==
    LET w == WagerDecision(signal_bias, biased)
        ai_safety_effect == SafetyEffect(ai_invests_high)
        auditor_check_effect == CheckEffect(auditor_pays_for_check)
        incremental_ai == Incremental(ai_safety_effect, w.ai_wager_effect)
        incremental_auditor ==
            Incremental(auditor_check_effect, w.auditor_wager_effect)
    IN  [round |-> RoundNumber(i),
         ai_invests_high |-> ai_invests_high,
         auditor_pays_for_check |-> auditor_pays_for_check,
         signal_bias |-> signal_bias,
         wager_placed |-> w.wager_placed,
         ai_safety_effect |-> ai_safety_effect,
         auditor_check_effect |-> auditor_check_effect,
         ai_wager_effect |-> w.ai_wager_effect,
         auditor_wager_effect |-> w.auditor_wager_effect,
         incremental_ai |-> incremental_ai,
         incremental_auditor |-> incremental_auditor,
         cumulative_ai |-> Accumulate(cumulative_ai, incremental_ai),
         cumulative_auditor |->
             Accumulate(cumulative_auditor, incremental_auditor)]

----------------------------------------------------------------------------
(* summarize_buckets *)

EmptyBuckets ==
    [d \in Decisions |-> [g \in Groups |-> [ai |-> <<>>, auditor |-> <<>>]]]

GroupOf(flag) == IF flag THEN "true" ELSE "false"

\* Append one value per actor to the two lists of a group.
Put(b, d, g, pair) ==
    [b EXCEPT ![d][g] = [ai |-> Append(@.ai, pair[1]),
                         auditor |-> Append(@.auditor, pair[2])]]

\* Mutant of DecisionValues.
DecisionValuesZeroWhenFalse(flag, round_info) ==
    IF flag
    THEN <<round_info.incremental_ai, round_info.incremental_auditor>>
    ELSE <<0, 0>>

\* What a round contributes to a group of ai_invests_high and of
\* auditor_pays_for_check.
DecisionValues(flag, round_info) ==
    <<round_info.incremental_ai, round_info.incremental_auditor>>

\* Mutant of WagerContribution.
WagerContributionKeepsTotals(round_info) ==
    <<round_info.incremental_ai, round_info.incremental_auditor>>

\* What a round contributes to its group of wager_placed.
WagerContribution(round_info) ==
    IF round_info.wager_placed
    THEN <<round_info.incremental_ai, round_info.incremental_auditor>>
    ELSE <<0, 0>>

\* Mutant of AppendRound.
AppendRoundSkipsNoWager(b, round_info) ==
    LET b1 == Put(b, "ai_invests_high", GroupOf(round_info.ai_invests_high),
                  DecisionValues(round_info.ai_invests_high, round_info))
        b2 == Put(b1, "auditor_pays_for_check",
                  GroupOf(round_info.auditor_pays_for_check),
                  DecisionValues(round_info.auditor_pays_for_check, round_info))
    IN  IF round_info.wager_placed
        THEN Put(b2, "wager_placed", "true", WagerContribution(round_info))
        ELSE b2

\* The body of the loop over history.
AppendRound(b, round_info) ==
    LET b1 == Put(b, "ai_invests_high", GroupOf(round_info.ai_invests_high),
                  DecisionValues(round_info.ai_invests_high, round_info))
        b2 == Put(b1, "auditor_pays_for_check",
                  GroupOf(round_info.auditor_pays_for_check),
                  DecisionValues(round_info.auditor_pays_for_check, round_info))
    IN  Put(b2, "wager_placed", GroupOf(round_info.wager_placed),
            WagerContribution(round_info))

\* Mutant of Mean.
MeanUnguarded(xs) ==
    IF xs # <<>> THEN Divide(Sum(xs), Len(xs))
    ELSE [num |-> Sum(xs), den |-> Len(xs)]

\* sum(xs) / len(xs) if xs else 0.
Mean(xs) == IF xs # <<>> THEN Divide(Sum(xs), Len(xs)) ELSE Zero

GroupSummary(outcomes) ==
    [count |-> Len(outcomes.ai),
     avg_ai_outcome |-> Mean(outcomes.ai),
     avg_auditor_outcome |-> Mean(outcomes.auditor)]

BuildSummary(b) ==
    [d \in Decisions |-> [g \in Groups |-> GroupSummary(b[d][g])]]

----------------------------------------------------------------------------
(* Initial states *)

\* The records of a history a caller hands directly to summarize_buckets.
DirectRecords ==
    {[ai_invests_high |-> f[1], auditor_pays_for_check |-> f[2],
      wager_placed |-> f[3],
      incremental_ai |-> p[1], incremental_auditor |-> p[2]] :
        f \in BOOLEAN \X BOOLEAN \X BOOLEAN, p \in IncrementalPairs}

DirectHistories == UNION {[1..n -> DirectRecords] : n \in 0..MaxLen}

\* A call of simulate_game, as main makes it.
InitSimulate ==
    /\ entry = "simulate_game"
    /\ pc = "loop"
    /\ n_rounds \in 0..MaxRounds
    /\ cost_high_safety \in CostHighValues
    /\ cost_low_safety \in CostLowValues
    /\ prob_bias_high \in ProbBiasHighValues
    /\ prob_bias_low \in ProbBiasLowValues
    /\ auditor_check_cost \in CheckCostValues
    /\ wager_amount \in WagerValues
    /\ fine_amount \in FineValues
    /\ history = <<>>

\* A call of summarize_buckets on a history of the caller's.
InitSummarize ==
    /\ entry = "summarize_buckets"
    /\ pc = "ready"
    /\ n_rounds = 0
    /\ cost_high_safety = 0
    /\ cost_low_safety = 0
    /\ prob_bias_high = 0
    /\ prob_bias_low = 0
    /\ auditor_check_cost = 0
    /\ wager_amount = 0
    /\ fine_amount = 0
    /\ history \in DirectHistories

Init ==
    /\ InitSimulate \/ InitSummarize
    /\ round_i = 0
    /\ cumulative_ai = 0
    /\ cumulative_auditor = 0
    /\ is_biased = "unbound"
    /\ final_cum_ai = 0
    /\ final_cum_auditor = 0
    /\ buckets = EmptyBuckets
    /\ k = 1
    /\ summary = BuildSummary(EmptyBuckets)

----------------------------------------------------------------------------
(* Actions *)

\* One iteration of the loop of simulate_game.
Round ==
    /\ pc = "loop"
    /\ round_i < n_rounds
    /\ \E ai_invests_high \in BOOLEAN, auditor_pays_for_check \in BOOLEAN,
          draw1 \in RandomDraws, draw2 \in RandomDraws :
         LET prob_bias == ProbBias(ai_invests_high)
             signal_bias ==
                 SignalBias(auditor_pays_for_check, prob_bias, draw1)
             biased == signal_bias /\ IsBiased(prob_bias, draw2)
             rec == RoundRecord(round_i, ai_invests_high,
                                auditor_pays_for_check, signal_bias, biased)
         IN  /\ history' = Append(history, rec)
             /\ cumulative_ai' = rec.cumulative_ai
             /\ cumulative_auditor' = rec.cumulative_auditor
             /\ is_biased' = IF signal_bias
                             THEN (IF biased THEN "true" ELSE "false")
                             ELSE is_biased
    /\ round_i' = round_i + 1
    /\ UNCHANGED <<entry, pc, params, final_cum_ai, final_cum_auditor,
                   buckets, k, summary>>

\* The loop is exhausted: simulate_game returns to main.
Return ==
    /\ pc = "loop"
    /\ round_i >= n_rounds
    /\ pc' = "ready"
    /\ final_cum_ai' = cumulative_ai
    /\ final_cum_auditor' = cumulative_auditor
    /\ UNCHANGED <<entry, params, simVars, history, buckets, k, summary>>

\* summarize_buckets is called and builds its empty buckets.
CallSummarize ==
    /\ pc = "ready"
    /\ pc' = "collect"
    /\ buckets' = EmptyBuckets
    /\ k' = 1
    /\ UNCHANGED <<entry, params, simVars, history, final_cum_ai,
                   final_cum_auditor, summary>>

\* One iteration of the loop over history.
Collect ==
    /\ pc = "collect"
    /\ k <= Len(history)
    /\ buckets' = AppendRound(buckets, history[k])
    /\ k' = k + 1
    /\ UNCHANGED <<entry, pc, params, simVars, history, final_cum_ai,
                   final_cum_auditor, summary>>

\* The summary is computed and returned.
Summarize ==
    /\ pc = "collect"
    /\ k > Len(history)
    /\ summary' = BuildSummary(buckets)
    /\ pc' = "done"
    /\ UNCHANGED <<entry, params, simVars, history, final_cum_ai,
                   final_cum_auditor, buckets, k>>

Next == Round \/ Return \/ CallSummarize \/ Collect \/ Summarize

Spec == Init /\ [][Next]_vars

\* The program is single-threaded and runs every step it can.
FairSpec == Spec /\ WF_vars(Next)

TypeOK ==
    /\ entry \in {"simulate_game", "summarize_buckets"}
    /\ pc \in {"loop", "ready", "collect", "done"}
    /\ round_i \in 0..n_rounds
    /\ Len(history) <= MaxRounds \/ Len(history) <= MaxLen
    /\ is_biased \in {"unbound", "true", "false"}
    /\ k \in 1..(Len(history) + 1)

----------------------------------------------------------------------------
(* Properties *)

FromSimulation == entry = "simulate_game"

Last(h) == h[Len(h)]

Rounds == 1..Len(history)

\* The round that ran last drew a signal and the redraw confirmed the bias.
LastIsTruePositive ==
    /\ FromSimulation
    /\ history # <<>>
    /\ Last(history).signal_bias
    /\ is_biased = "true"

\* The round that ran last drew a signal and the redraw did not confirm it.
LastIsFalsePositive ==
    /\ FromSimulation
    /\ history # <<>>
    /\ Last(history).signal_bias
    /\ is_biased = "false"

\* C1 as stated: in a true-positive round the recorded auditor_wager_effect
\* is fine_amount + wager_amount and the recorded ai_wager_effect is
\* -fine_amount.
C1_TruePositiveAsStated ==
    LastIsTruePositive =>
        /\ Last(history).auditor_wager_effect
               = M(fine_amount) + M(wager_amount)
        /\ Last(history).ai_wager_effect = -M(fine_amount)

\* C1 amended: in a true-positive round the recorded auditor_wager_effect is
\* fine_amount (the upfront -wager_amount plus fine_amount + wager_amount)
\* and the recorded ai_wager_effect is -fine_amount.
C1_TruePositiveNetFine ==
    LastIsTruePositive =>
        /\ Last(history).auditor_wager_effect = M(fine_amount)
        /\ Last(history).ai_wager_effect = -M(fine_amount)

C1_Witness ==
    /\ LastIsTruePositive
    /\ wager_amount > 0
    /\ fine_amount > 0

SumOfField(field, i) == Sum([j \in 1..i |-> history[j][field]])

\* C2: after every round i the cumulative totals of the record are the sums
\* of the incrementals of rounds 1..i (cumulative[i] = cumulative[i-1] +
\* incremental[i], cumulative[0] = 0), and the totals returned are the
\* cumulative values of round N, 0 when N = 0.
C2_CumulativeIsPrefixSum ==
    FromSimulation =>
        /\ \A i \in Rounds :
             /\ history[i].cumulative_ai = SumOfField("incremental_ai", i)
             /\ history[i].cumulative_auditor
                    = SumOfField("incremental_auditor", i)
             /\ history[i].cumulative_ai
                    = (IF i = 1 THEN 0 ELSE history[i - 1].cumulative_ai)
                      + history[i].incremental_ai
             /\ history[i].cumulative_auditor
                    = (IF i = 1 THEN 0 ELSE history[i - 1].cumulative_auditor)
                      + history[i].incremental_auditor
        /\ pc # "loop" =>
             /\ final_cum_ai = (IF history = <<>> THEN 0
                                ELSE Last(history).cumulative_ai)
             /\ final_cum_auditor = (IF history = <<>> THEN 0
                                     ELSE Last(history).cumulative_auditor)

C2_Witness ==
    /\ FromSimulation
    /\ pc = "ready"
    /\ Len(history) >= 2
    /\ history[1].incremental_ai # 0
    /\ history[1].incremental_auditor # 0
    /\ history[2].incremental_auditor # 0

C3_Shape ==
    FromSimulation =>
        /\ Len(history) <= n_rounds
        /\ \A i \in Rounds : history[i].round = i
        /\ pc # "loop" => Len(history) = n_rounds

C3_AppendOnly ==
    FromSimulation =>
        \/ history' = history
        \/ /\ Len(history') = Len(history) + 1
           /\ SubSeq(history', 1, Len(history)) = history
           /\ Last(history').round = Len(history')

\* C3: simulate_game terminates after exactly N rounds, the history it
\* returns has N entries whose 'round' fields are 1..N in order, and the
\* history only grows, by one appended record per round.
C3_ExactlyNRounds ==
    /\ []C3_Shape
    /\ [][C3_AppendOnly]_vars
    /\ (FromSimulation => <>(pc # "loop" /\ Len(history) = n_rounds))

C3_Witness ==
    /\ FromSimulation
    /\ pc = "ready"
    /\ Len(history) >= 2

RoundsInGroup(d, g) == {i \in Rounds : GroupOf(history[i][d]) = g}

\* C4: for each decision the counts of the 'true' and the 'false' group add
\* up to the number of records, and each count is the number of records
\* whose flag has that value.
C4_CountsPartitionHistory ==
    pc = "done" =>
        \A d \in Decisions :
            /\ summary[d]["true"].count + summary[d]["false"].count
                   = Len(history)
            /\ \A g \in Groups :
                   summary[d][g].count = Cardinality(RoundsInGroup(d, g))

C4_Witness ==
    /\ pc = "done"
    /\ Len(history) >= 2
    /\ \A d \in Decisions : \A g \in Groups : RoundsInGroup(d, g) # {}

\* C5: the 'false' group of wager_placed has both averages equal to 0,
\* whatever the incrementals of its rounds are.
C5_NoWagerGroupIsZero ==
    pc = "done" =>
        /\ summary["wager_placed"]["false"].avg_ai_outcome = Zero
        /\ summary["wager_placed"]["false"].avg_auditor_outcome = Zero

C5_Witness ==
    /\ pc = "done"
    /\ \E i \in Rounds :
          /\ ~history[i].wager_placed
          /\ history[i].incremental_ai # 0
          /\ history[i].incremental_auditor # 0

\* C6: in every record wager_placed is true exactly when signal_bias is
\* true, and without a signal both wager effects are zero.
C6_WagerIffSignal ==
    FromSimulation =>
        \A i \in Rounds :
            /\ history[i].wager_placed <=> history[i].signal_bias
            /\ ~history[i].signal_bias =>
                   /\ history[i].auditor_wager_effect = 0
                   /\ history[i].ai_wager_effect = 0

C6_Witness ==
    /\ FromSimulation
    /\ wager_amount > 0
    /\ \E i \in Rounds : history[i].signal_bias
    /\ \E i \in Rounds : ~history[i].signal_bias

\* C7: a group with no rounds is summarised as count 0 and both averages 0,
\* with no division by its length, and simulate_game with N = 0 returns an
\* empty history and both totals 0.
C7_EmptyGroupIsZero ==
    /\ pc = "done" =>
          \A d \in Decisions : \A g \in Groups :
              RoundsInGroup(d, g) = {} =>
                  summary[d][g] = [count |-> 0, avg_ai_outcome |-> Zero,
                                   avg_auditor_outcome |-> Zero]
    /\ (FromSimulation /\ n_rounds = 0 /\ pc # "loop") =>
          /\ history = <<>>
          /\ final_cum_ai = 0
          /\ final_cum_auditor = 0

C7_Witness ==
    /\ FromSimulation
    /\ n_rounds = 0
    /\ pc = "done"
    /\ history = <<>>

\* C8: in a false-positive round the recorded auditor_wager_effect is
\* -wager_amount and the recorded ai_wager_effect is half of wager_amount.
C8_FalsePositiveEffects ==
    LastIsFalsePositive =>
        /\ Last(history).auditor_wager_effect = -M(wager_amount)
        /\ 2 * Last(history).ai_wager_effect = M(wager_amount)

C8_Witness ==
    /\ LastIsFalsePositive
    /\ wager_amount % 2 = 1

\* C9: in every record incremental_ai = ai_safety_effect + ai_wager_effect
\* and incremental_auditor = auditor_check_effect + auditor_wager_effect,
\* where the safety effect is minus the cost of the chosen safety level and
\* the check effect is minus the check cost when the auditor checks, else 0.
C9_IncrementalIsSumOfEffects ==
    FromSimulation =>
        \A i \in Rounds :
            /\ history[i].incremental_ai
                   = history[i].ai_safety_effect + history[i].ai_wager_effect
            /\ history[i].incremental_auditor
                   = history[i].auditor_check_effect
                     + history[i].auditor_wager_effect
            /\ history[i].ai_safety_effect
                   = (IF history[i].ai_invests_high
                      THEN -(2 * cost_high_safety)
                      ELSE -(2 * cost_low_safety))
            /\ history[i].auditor_check_effect
                   = (IF history[i].auditor_pays_for_check
                      THEN -(2 * auditor_check_cost)
                      ELSE 0)

C9_Witness ==
    /\ FromSimulation
    /\ \E i \in Rounds :
          /\ history[i].auditor_pays_for_check
          /\ history[i].auditor_check_effect # 0
          /\ history[i].ai_wager_effect # 0
          /\ history[i].auditor_wager_effect # 0

\* The values of a field over the rounds of a group, in the order of h.
RECURSIVE ValuesOfGroup(_, _, _, _)
ValuesOfGroup(h, d, g, field) ==
    IF h = <<>> THEN <<>>
    ELSE (IF GroupOf(Head(h)[d]) = g THEN <<Head(h)[field]>> ELSE <<>>)
         \o ValuesOfGroup(Tail(h), d, g, field)

FullGroups ==
    ({"ai_invests_high", "auditor_pays_for_check"} \X Groups)
        \cup {<<"wager_placed", "true">>}

====
